---------------------------- MODULE Spec2Model ----------------------------
(***************************************************************************)
(* A model of the shared task-manager Telegram bot: the SQLite task store  *)
(* of database.py (class TaskDB) and the command, message and callback     *)
(* handlers of main.py with their per-user context.user_data dictionary.   *)
(*                                                                         *)
(* Three specifications are given.  Spec drives the handlers of main.py    *)
(* with the updates the chat transport can deliver.  StoreSpec calls the   *)
(* public methods of TaskDB directly, with arguments drawn from small      *)
(* sets, as a caller of the class would.  NotifySpec drives the handlers   *)
(* that broadcast, with a third registered chat.                           *)
(*                                                                         *)
(* Modelling conventions                                                   *)
(*  - A Python dict is a function whose DOMAIN is the set of keys present. *)
(*  - Callback data is the sequence of its '_'-separated segments:         *)
(*    'edit_1_setpriority_High' is <<"edit", 1, "setpriority", "High">>,   *)
(*    so data.split('_') is the sequence itself and splitting one segment  *)
(*    again yields a one-element list.                                     *)
(*  - Every statement executed on the database may raise (I/O error,       *)
(*    locked file); the methods of TaskDB catch that and return their      *)
(*    failure value.  Whether a call raises is an input of the action.     *)
(*  - Replies to the acting user (reply_text, edit_message_text, answer)   *)
(*    are assumed to be delivered; only the broadcast of notify_all_users, *)
(*    which the code guards per recipient, may fail.                       *)
(***************************************************************************)
EXTENDS Integers, Sequences, FiniteSets

(* Bounds of the model. *)
MaxId == 1
MaxRows == 2
MaxTime == 1

(* The Telegram users (str(update.effective_user.id)) and their full names. *)
Users == {"u1", "u2"}

full_name == [u \in Users |-> IF u = "u1" THEN "Ann" ELSE "Bob"]

(* Free-text messages a user may send. *)
Texts == {"Buy milk", "Call Bob"}

(* The descriptions a direct caller of the store passes. *)
Descriptions == Texts

PRIORITIES == <<"High", "Medium", "Low">>

PrioritySet == {PRIORITIES[i] : i \in 1..Len(PRIORITIES)}

(* Python's None, where a row is expected. *)
None == [none |-> TRUE]

VARIABLES
    tasks,            \* rows of table tasks
    sqlite_sequence,  \* largest id the AUTOINCREMENT column has handed out
    now,              \* the clock behind CURRENT_TIMESTAMP, in seconds
    result,           \* what the last direct call of a TaskDB method returned
    user_data,        \* context.user_data of every user
    active_users,     \* the set active_users of main.py
    reply,            \* the reply the last handler gave the acting user
    sent              \* the broadcast of the last handler

vars == <<tasks, sqlite_sequence, now, result, user_data, active_users, reply, sent>>

storeVars == <<tasks, sqlite_sequence, now>>

botVars == <<user_data, active_users, reply, sent>>

----------------------------------------------------------------------------
(* Python dictionaries. *)

EmptyDict == [k \in {} |-> TRUE]

Has(d, k) == k \in DOMAIN d

Put(d, k, v) == [x \in (DOMAIN d) \cup {k} |-> IF x = k THEN v ELSE d[x]]

Del(d, k) == [x \in (DOMAIN d) \ {k} |-> d[x]]

----------------------------------------------------------------------------
(* database.py: class TaskDB.  Each method is an operator of the current   *)
(* table; ok says that no statement of the call raised.  A method yields   *)
(* the table and id counter after the call and the value it returns.       *)

(* The id of a column declared INTEGER PRIMARY KEY without AUTOINCREMENT:  *)
(* one more than the largest id in the table, so the id of a deleted last  *)
(* row is handed out again.                                                *)
NewRow_rowid(user_id, description, priority) ==
    [id |-> IF tasks = {} THEN 1
            ELSE (CHOOSE m \in {r.id : r \in tasks} : \A r \in tasks : r.id <= m) + 1,
     user_id |-> user_id,
     description |-> description, priority |-> priority, created_at |-> now]

(* Lines 22 and 39-42: AUTOINCREMENT hands out one more than the largest   *)
(* id ever used, which table sqlite_sequence remembers.                    *)
NewRow(user_id, description, priority) ==
    [id |-> sqlite_sequence + 1, user_id |-> user_id,
     description |-> description, priority |-> priority, created_at |-> now]

TaskDB_add_task(user_id, description, priority, ok) ==
    IF ok
    THEN [tasks |-> tasks \cup {NewRow(user_id, description, priority)},
          seq |-> sqlite_sequence + 1, ret |-> TRUE]
    ELSE [tasks |-> tasks, seq |-> sqlite_sequence, ret |-> FALSE]

(* SQLite compares TEXT values bytewise (collation BINARY).  The strings   *)
(* that reach column priority in this model differ in their first byte.    *)
FirstByte(s) ==
    CASE s = "Ann" -> 65
      [] s = "Bob" -> 66
      [] s = "High" -> 72
      [] s = "Low" -> 76
      [] s = "Medium" -> 77
      [] s = "Urgent" -> 85

(* ORDER BY priority DESC, created_at: a precedes b, or they tie. *)
OrderedBefore(a, b) ==
    \/ FirstByte(a.priority) > FirstByte(b.priority)
    \/ a.priority = b.priority /\ a.created_at <= b.created_at

Listed(row) == [id |-> row.id, description |-> row.description, priority |-> row.priority]

(* The sequences over the rows of S, each row once. *)
Arrangements(S) ==
    {p \in [1..Cardinality(S) -> S] : \A i, j \in 1..Cardinality(S) : i # j => p[i] # p[j]}

(* The listings get_tasks may return: rows that tie in both sort keys come *)
(* in an order SQLite does not specify.                                    *)
TaskDB_get_tasks(user_id, ok) ==
    IF ok
    THEN LET mine == {r \in tasks : r.user_id = user_id}
         IN  {[i \in 1..Cardinality(mine) |-> Listed(p[i])] :
                 p \in {q \in Arrangements(mine) :
                           \A i, j \in 1..Cardinality(mine) :
                               i < j => OrderedBefore(q[i], q[j])}}
    ELSE {<<>>}

TaskDB_update_task_description(task_id, new_description, ok) ==
    IF ok
    THEN [tasks |-> {IF r.id = task_id THEN [r EXCEPT !.description = new_description] ELSE r :
                        r \in tasks},
          ret |-> TRUE]
    ELSE [tasks |-> tasks, ret |-> FALSE]

TaskDB_update_task_priority(task_id, new_priority, ok) ==
    IF ok
    THEN [tasks |-> {IF r.id = task_id THEN [r EXCEPT !.priority = new_priority] ELSE r :
                        r \in tasks},
          ret |-> TRUE]
    ELSE [tasks |-> tasks, ret |-> FALSE]

(* A DELETE whose transaction is never committed: the row stays. *)
TaskDB_delete_task_uncommitted(task_id, ok) == [tasks |-> tasks, ret |-> ok]

TaskDB_delete_task(task_id, ok) ==
    IF ok
    THEN [tasks |-> {r \in tasks : r.id # task_id}, ret |-> TRUE]
    ELSE [tasks |-> tasks, ret |-> FALSE]

TaskDB_get_task(task_id, ok) ==
    IF ok /\ \E r \in tasks : r.id = task_id
    THEN LET r == CHOOSE x \in tasks : x.id = task_id
         IN  [id |-> r.id, user_id |-> r.user_id,
              description |-> r.description, priority |-> r.priority]
    ELSE None

----------------------------------------------------------------------------
(* The state after construction: TaskDB() has created an empty table,      *)
(* nobody has talked to the bot.                                           *)

NoCall == [op |-> "none"]

NoSend == [attempted |-> {}, delivered |-> {}]

Init ==
    /\ tasks = {}
    /\ sqlite_sequence = 0
    /\ now = 0
    /\ result = NoCall
    /\ user_data = [u \in Users |-> EmptyDict]
    /\ active_users = {}
    /\ reply = "none"
    /\ sent = NoSend

(* A second passes. *)
Tick ==
    /\ now < MaxTime
    /\ now' = now + 1
    /\ UNCHANGED <<tasks, sqlite_sequence, result, user_data, active_users, reply, sent>>

----------------------------------------------------------------------------
(* StoreSpec: direct calls of the public methods of TaskDB. *)

Owners == Users

StorePriorities == PrioritySet \cup {"Urgent"}

RowIds == 1..MaxRows

Call_add_task(user_id, description, priority, ok) ==
    /\ sqlite_sequence < MaxRows
    /\ LET r == TaskDB_add_task(user_id, description, priority, ok)
       IN  /\ tasks' = r.tasks
           /\ sqlite_sequence' = r.seq
           /\ result' = [op |-> "add_task", ret |-> r.ret]
    /\ UNCHANGED <<now, botVars>>

Call_get_tasks(user_id, ok) ==
    /\ \E listing \in TaskDB_get_tasks(user_id, ok) :
           result' = [op |-> "get_tasks", user_id |-> user_id, ret |-> listing]
    /\ UNCHANGED <<storeVars, botVars>>

Call_update_task_description(task_id, new_description, ok) ==
    /\ LET r == TaskDB_update_task_description(task_id, new_description, ok)
       IN  /\ tasks' = r.tasks
           /\ result' = [op |-> "update_task_description", ret |-> r.ret]
    /\ UNCHANGED <<sqlite_sequence, now, botVars>>

Call_update_task_priority(task_id, new_priority, ok) ==
    /\ LET r == TaskDB_update_task_priority(task_id, new_priority, ok)
       IN  /\ tasks' = r.tasks
           /\ result' = [op |-> "update_task_priority", ret |-> r.ret]
    /\ UNCHANGED <<sqlite_sequence, now, botVars>>

Call_delete_task(task_id, ok) ==
    /\ LET r == TaskDB_delete_task(task_id, ok)
       IN  /\ tasks' = r.tasks
           /\ result' = [op |-> "delete_task", ret |-> r.ret]
    /\ UNCHANGED <<sqlite_sequence, now, botVars>>

Call_get_task(task_id, ok) ==
    /\ result' = [op |-> "get_task", task_id |-> task_id, ret |-> TaskDB_get_task(task_id, ok)]
    /\ UNCHANGED <<storeVars, botVars>>

StoreNext ==
    \/ Tick
    \/ \E u \in Owners, d \in Descriptions, p \in StorePriorities, ok \in BOOLEAN :
           Call_add_task(u, d, p, ok)
    \/ \E u \in Owners, ok \in BOOLEAN : Call_get_tasks(u, ok)
    \/ \E id \in RowIds, d \in Descriptions, ok \in BOOLEAN : Call_update_task_description(id, d, ok)
    \/ \E id \in RowIds, p \in StorePriorities, ok \in BOOLEAN : Call_update_task_priority(id, p, ok)
    \/ \E id \in RowIds, ok \in BOOLEAN : Call_delete_task(id, ok)
    \/ \E id \in RowIds, ok \in BOOLEAN : Call_get_task(id, ok)

StoreSpec == Init /\ [][StoreNext]_vars

----------------------------------------------------------------------------
(* main.py: the conversation flags of context.user_data, read as the       *)
(* phases they stand for.  A flag that is present with value False does    *)
(* not claim its phase.                                                    *)

AwaitingDescription(u) ==
    Has(user_data[u], "awaiting_task") /\ user_data[u]["awaiting_task"]

AwaitingPriority(u) ==
    Has(user_data[u], "awaiting_priority") /\ user_data[u]["awaiting_priority"]

AwaitingEditField(u) == Has(user_data[u], "editing_task")

Idle(u) == ~AwaitingDescription(u) /\ ~AwaitingPriority(u) /\ ~AwaitingEditField(u)

(* A broadcast whose try/except encloses the loop instead of the send: the *)
(* first send that raises ends it.  Shown is the run in which a recipient  *)
(* that fails comes first in the iteration of the set.                     *)
notify_all_users_abort(exclude_user_id, down) ==
    LET recipients == {user_id \in active_users : user_id # exclude_user_id}
    IN  IF recipients \cap down = {}
        THEN [attempted |-> recipients, delivered |-> recipients]
        ELSE [attempted |-> {CHOOSE user_id \in recipients \cap down : TRUE},
              delivered |-> {}]

(* notify_all_users: down are the recipients whose send_message raises. *)
notify_all_users(exclude_user_id, down) ==
    [attempted |-> {user_id \in active_users : user_id # exclude_user_id},
     delivered |-> {user_id \in active_users : user_id # exclude_user_id /\ user_id \notin down}]

(* /start *)
start(u) ==
    /\ active_users' = active_users \cup {u}
    /\ reply' = "help_text"
    /\ sent' = NoSend
    /\ UNCHANGED <<storeVars, result, user_data>>

(* /help *)
help_command(u) ==
    /\ reply' = "help_text"
    /\ sent' = NoSend
    /\ UNCHANGED <<storeVars, result, user_data, active_users>>

(* /add *)
add_task(u) ==
    /\ user_data' = [user_data EXCEPT ![u] = Put(@, "awaiting_task", TRUE)]
    /\ reply' = "enter_description"
    /\ sent' = NoSend
    /\ UNCHANGED <<storeVars, result, active_users>>

(* receive_task_description on context.user_data ud and message text. *)
receive_task_description(ud, text) ==
    IF Has(ud, "awaiting_task")
    THEN [user_data |-> Put(Put(Put(ud, "task_description", text),
                                "awaiting_task", FALSE),
                            "awaiting_priority", TRUE),
          reply |-> "select_priority"]
    ELSE [user_data |-> ud, reply |-> "none"]

(* A text message that is no command.  Both MessageHandlers are added to   *)
(* the same handler group with the same filter; the Application hands an   *)
(* update to the first handler of a group that matches it, which is        *)
(* receive_task_description.  receive_edit_description is never called.    *)
text_message(u, text) ==
    /\ LET r == receive_task_description(user_data[u], text)
       IN  /\ user_data' = [user_data EXCEPT ![u] = r.user_data]
           /\ reply' = r.reply
    /\ sent' = NoSend
    /\ UNCHANGED <<storeVars, result, active_users>>

(* /list, /edit and /delete all start with task_db.get_all_tasks(), which  *)
(* TaskDB does not define: AttributeError.  error_handler answers the      *)
(* message with 'An error occurred. Please try again.'                     *)
list_tasks(u) ==
    /\ reply' = "error_occurred"
    /\ sent' = NoSend
    /\ UNCHANGED <<storeVars, result, user_data, active_users>>

edit_task(u) ==
    /\ reply' = "error_occurred"
    /\ sent' = NoSend
    /\ UNCHANGED <<storeVars, result, user_data, active_users>>

delete_task(u) ==
    /\ reply' = "error_occurred"
    /\ sent' = NoSend
    /\ UNCHANGED <<storeVars, result, user_data, active_users>>

----------------------------------------------------------------------------
(* main.py: button_callback.  ok1 and ok2 say that the first and second    *)
(* database call of the handler did not raise; down are the recipients     *)
(* whose notification fails.                                               *)

Ids == 1..MaxId

CallbackData ==
    {<<"priority", p>> : p \in PrioritySet}
    \cup {<<"delete", id>> : id \in Ids}
    \cup {<<"edit", id, a>> : id \in Ids, a \in {"select", "description", "priority", "cancel"}}
    \cup {<<"edit", id, "setpriority", p>> : id \in Ids, p \in PrioritySet}

(* The handler raised; error_handler logs it, and a callback query has no  *)
(* message to answer.                                                      *)
Raised == "exception"

(* A clean-up that leaves task_description behind: lines 143-147 without   *)
(* lines 144-145.                                                          *)
cleanup_add_keeps_description(ud) == Del(ud, "awaiting_priority")

(* Lines 143-147 and 226-237: the clean-up of the context. *)
cleanup_add(ud) == Del(Del(ud, "task_description"), "awaiting_priority")

cleanup_edit(ud) == Del(Del(ud, "editing_task"), "editing_field")

(* data.startswith('priority_') *)
callback_priority(u, data, ok1, down) ==
    LET priority == data[2]
        ud == user_data[u]
    IN  IF Has(ud, "task_description")
        THEN /\ ok1 => sqlite_sequence < MaxId
             /\ LET description == ud["task_description"]
                    creator_name == full_name[u]
                    r == TaskDB_add_task(description, priority, creator_name, ok1)
                IN  /\ tasks' = r.tasks
                    /\ sqlite_sequence' = r.seq
                    /\ reply' = IF r.ret THEN "task_added" ELSE "failed_to_add"
                    /\ sent' = IF r.ret THEN notify_all_users(u, down) ELSE NoSend
             /\ user_data' = [user_data EXCEPT ![u] = cleanup_add(ud)]
             /\ UNCHANGED <<now, result, active_users>>
        ELSE /\ reply' = "none"
             /\ sent' = NoSend
             /\ UNCHANGED <<storeVars, result, user_data, active_users>>

(* data.startswith('delete_') *)
callback_delete(u, data, ok1, ok2, down) ==
    LET task_id == data[2]
        task == TaskDB_get_task(task_id, ok1)
    IN  IF task # None
        THEN LET r == TaskDB_delete_task(task_id, ok2)
             IN  /\ tasks' = r.tasks
                 /\ reply' = IF r.ret THEN "task_deleted" ELSE "failed_to_delete"
                 /\ sent' = IF r.ret THEN notify_all_users(u, down) ELSE NoSend
                 /\ UNCHANGED <<sqlite_sequence, now, result, user_data, active_users>>
        ELSE /\ reply' = "task_not_found"
             /\ sent' = NoSend
             /\ UNCHANGED <<storeVars, result, user_data, active_users>>

(* str.split('_') of one segment of callback data, which holds no '_'. *)
SplitSegment(segment) == <<segment>>

(* action.split('_')[1], Python's index 1 being the second element. *)
new_priority_of(action) ==
    LET parts == SplitSegment(action)
    IN  IF Len(parts) >= 2 THEN parts[2] ELSE Raised

(* data.startswith('edit_') *)
callback_edit(u, data, ok1, ok2, down) ==
    LET task_id == data[2]
        action == data[3]
        task == TaskDB_get_task(task_id, ok1)
        ud == user_data[u]
    IN  IF task = None
        THEN /\ reply' = "task_not_found"
             /\ sent' = NoSend
             /\ UNCHANGED <<storeVars, result, user_data, active_users>>
        ELSE CASE action = "select" ->
                    /\ reply' = "what_to_edit"
                    /\ sent' = NoSend
                    /\ UNCHANGED <<storeVars, result, user_data, active_users>>
               [] action = "description" ->
                    /\ user_data' = [user_data EXCEPT ![u] =
                           Put(Put(ud, "editing_task", task_id), "editing_field", "description")]
                    /\ reply' = "send_new_description"
                    /\ sent' = NoSend
                    /\ UNCHANGED <<storeVars, result, active_users>>
               [] action = "priority" ->
                    /\ reply' = "select_new_priority"
                    /\ sent' = NoSend
                    /\ UNCHANGED <<storeVars, result, user_data, active_users>>
               [] action = "setpriority" ->
                    LET new_priority == new_priority_of(action)
                    IN  IF new_priority = Raised
                        THEN /\ reply' = Raised
                             /\ sent' = NoSend
                             /\ UNCHANGED <<storeVars, result, user_data, active_users>>
                        ELSE LET r == TaskDB_update_task_priority(task_id, new_priority, ok2)
                             IN  /\ tasks' = r.tasks
                                 /\ reply' = IF r.ret THEN "priority_updated"
                                                      ELSE "failed_to_update_priority"
                                 /\ sent' = IF r.ret THEN notify_all_users(u, down) ELSE NoSend
                                 /\ user_data' = [user_data EXCEPT ![u] = cleanup_edit(ud)]
                                 /\ UNCHANGED <<sqlite_sequence, now, result, active_users>>
               [] action = "cancel" ->
                    /\ user_data' = [user_data EXCEPT ![u] = cleanup_edit(ud)]
                    /\ reply' = "edit_cancelled"
                    /\ sent' = NoSend
                    /\ UNCHANGED <<storeVars, result, active_users>>

button_callback(u, data, ok1, ok2, down) ==
    CASE data[1] = "priority" -> callback_priority(u, data, ok1, down)
      [] data[1] = "delete" -> callback_delete(u, data, ok1, ok2, down)
      [] data[1] = "edit" -> callback_edit(u, data, ok1, ok2, down)

(* The inputs of a callback that its branch does not read are fixed, so    *)
(* that one update is not enumerated several times.                        *)
Relevant(data, ok1, ok2, down) ==
    CASE data[1] = "priority" -> ok2
      [] data[1] = "delete" -> TRUE
      [] data[1] = "edit" -> ok2 /\ down = {}

(* receive_edit_description: registered at line 345, never dispatched. *)
receive_edit_description(ud, text, task, updated) ==
    IF Has(ud, "editing_task") /\ Has(ud, "editing_field")
       /\ task # None /\ ud["editing_field"] = "description"
    THEN [user_data |-> cleanup_edit(ud),
          reply |-> IF updated THEN "description_updated" ELSE "failed_to_update_description"]
    ELSE [user_data |-> ud, reply |-> "none"]

(* A callback query of user u carrying data. *)
callback_query(u, data) ==
    \E ok1, ok2 \in BOOLEAN, down \in SUBSET (Users \ {u}) :
        /\ Relevant(data, ok1, ok2, down)
        /\ button_callback(u, data, ok1, ok2, down)

----------------------------------------------------------------------------
(* Spec: the updates the chat transport can deliver to the handlers that   *)
(* setup_bot registers.  A keyboard stays in the chat after it was sent,   *)
(* so a callback query may carry any token of CallbackData at any time.    *)
(* No handler reads created_at or calls get_tasks; the clock stands still  *)
(* under Spec and advances under StoreSpec.                                *)

Next ==
    \/ \E u \in Users : start(u)
    \/ \E u \in Users : help_command(u)
    \/ \E u \in Users : add_task(u)
    \/ \E u \in Users : list_tasks(u)
    \/ \E u \in Users : edit_task(u)
    \/ \E u \in Users : delete_task(u)
    \/ \E u \in Users, text \in Texts : text_message(u, text)
    \/ \E u \in Users, data \in CallbackData : callback_query(u, data)

Spec == Init /\ [][Next]_vars

----------------------------------------------------------------------------
(* NotifySpec: the updates that lead to a broadcast, /start, the add       *)
(* dialog and the priority and delete buttons, with a third chat that has  *)
(* registered with /start and only receives.  Two recipients besides the   *)
(* acting user are needed for one send to fail while another succeeds.     *)

Listeners == {"u3"}

Chats == Users \cup Listeners

BroadcastData == {data \in CallbackData : data[1] \in {"priority", "delete"}}

broadcast_query(u, data) ==
    \E ok1, ok2 \in BOOLEAN :
        \E down \in SUBSET (Chats \ {u}) :
            /\ Relevant(data, ok1, ok2, down)
            /\ button_callback(u, data, ok1, ok2, down)

NotifyNext ==
    \/ \E u \in Chats : start(u)
    \/ \E u \in Users : add_task(u)
    \/ \E u \in Users, text \in Texts : text_message(u, text)
    \/ \E u \in Users, data \in BroadcastData : broadcast_query(u, data)

NotifySpec == Init /\ [][NotifyNext]_vars

----------------------------------------------------------------------------
(* Properties of the handlers, checked under Spec. *)

(* context.user_data of a user who had no dialog pending, sent /add and    *)
(* then the text D.                                                        *)
ReadyDict ==
    [D \in Texts |-> Put(Put(Put(EmptyDict, "awaiting_task", FALSE),
                            "task_description", D), "awaiting_priority", TRUE)]

DialogReady(u, D) == user_data[u] = ReadyDict[D]

(* The user presses the button of priority P; no database call raises. *)
PressPriority(u, P) ==
    \E down \in SUBSET Users : button_callback(u, <<"priority", P>>, TRUE, TRUE, down)

RowOf(table, task_id) == CHOOSE r \in table : r.id = task_id

Exists(task_id) == \E r \in tasks : r.id = task_id

(* C1: /add, a text D and the choice of priority P by a user with no       *)
(* dialog pending add exactly one record, with description D, priority P   *)
(* and the acting user as owner.                                           *)
C1_AddFlowStoresRecord ==
    [][\A u \in Users, D \in Texts, P \in PrioritySet :
          (DialogReady(u, D) /\ PressPriority(u, P)) =>
              \E r \in tasks' :
                  /\ r \notin tasks
                  /\ tasks' = tasks \cup {r}
                  /\ r.description = D
                  /\ r.priority = P
                  /\ r.user_id = u]_vars

(* C2: in every reachable state every record's priority is one of High,    *)
(* Medium, Low.                                                            *)
C2_PriorityInEnumeration == \A r \in tasks : r.priority \in PrioritySet

(* C4: after /add, a text and one priority selection from Idle exactly one *)
(* record was created and the user is Idle again; the same selection       *)
(* delivered again creates no record and changes no conversation state.    *)
C4_AddDialogCreatesOnce ==
    [][\A u \in Users :
          /\ tasks' = tasks \/ ~(add_task(u) \/ \E t \in Texts : text_message(u, t))
          /\ \A D \in Texts :
                 DialogReady(u, D) =>
                     \A P \in PrioritySet :
                         PressPriority(u, P) =>
                             /\ Cardinality(tasks') = Cardinality(tasks) + 1
                             /\ Idle(u)'
          /\ Idle(u) =>
                 \A P \in PrioritySet, ok1 \in BOOLEAN, down \in SUBSET Users :
                     button_callback(u, <<"priority", P>>, ok1, TRUE, down) =>
                         /\ tasks' = tasks
                         /\ sqlite_sequence' = sqlite_sequence
                         /\ user_data' = user_data]_vars

(* A user completed the add dialog: their task is stored and they are Idle. *)
C4_Witness ==
    \E u \in Users :
        /\ reply = "task_added"
        /\ Idle(u)
        /\ user_data[u] = Put(EmptyDict, "awaiting_task", FALSE)
        /\ \A v \in Users \ {u} : user_data[v] = EmptyDict
        /\ Cardinality(tasks) = 1

(* C5: a free-text message of a user with no dialog pending changes        *)
(* neither that user's conversation state nor the store, and is no error.  *)
C5_TextWhileIdleIsNoOp ==
    [][\A u \in Users, t \in Texts :
          (Idle(u) /\ text_message(u, t)) =>
              /\ user_data'[u] = user_data[u]
              /\ tasks' = tasks
              /\ reply' \notin {"error_occurred", Raised}]_vars

(* C6: a priority selection received while the user's phase is Idle,       *)
(* AwaitingDescription or AwaitingEditField creates no record and leaves   *)
(* the conversation state as it is.                                        *)
C6_StalePriorityIgnored ==
    [][\A u \in Users, P \in PrioritySet :
          ((Idle(u) \/ AwaitingDescription(u) \/ AwaitingEditField(u))
           /\ PressPriority(u, P)) =>
              /\ tasks' = tasks
              /\ user_data' = user_data]_vars

(* C7: a text T sent in AwaitingEditField(taskId), the task existing,      *)
(* makes T the stored description of taskId and returns the user to Idle.  *)
C7_EditTextUpdatesDescription ==
    [][\A u \in Users, T \in Texts :
          (AwaitingEditField(u) /\ Exists(user_data[u]["editing_task"])
           /\ text_message(u, T)) =>
              /\ \E r \in tasks' : r.id = user_data[u]["editing_task"] /\ r.description = T
              /\ Idle(u)']_vars

(* C8: from Idle, choosing priority P for an existing task through the     *)
(* edit buttons stores P as that task's priority and leaves the user Idle. *)
C8_EditPriorityStored ==
    [][\A u \in Users, id \in Ids, P \in PrioritySet :
          (Idle(u) /\ Exists(id)
           /\ button_callback(u, <<"edit", id, "setpriority", P>>, TRUE, TRUE, {})) =>
              /\ \E r \in tasks' : r.id = id /\ r.priority = P
              /\ Idle(u)']_vars

(* C14: /list of a user who has no task in the store is answered with the  *)
(* empty-list reply, not with an error.                                    *)
C14_ListOfNothingIsEmptyReply ==
    [][\A u \in Users :
          ((\A r \in tasks : r.user_id # u) /\ list_tasks(u)) =>
              reply' = "no_tasks_yet"]_vars

(* C15: in every reachable state a user holds a pending description only   *)
(* while their phase is AwaitingPriority, and not in AwaitingDescription   *)
(* or AwaitingEditField.                                                   *)
C15_PendingDescriptionOnlyInAwaitingPriority ==
    \A u \in Users :
        Has(user_data[u], "task_description") =>
            /\ AwaitingPriority(u)
            /\ ~AwaitingDescription(u)
            /\ ~AwaitingEditField(u)

(* C16: when the task a user is editing has been deleted by another user,  *)
(* pressing an edit button of that task or sending the new description     *)
(* gives the user a not-found reply and leaves them Idle.  The state taken *)
(* is the one right after the deletion, of which the user was notified:    *)
(* the deleting user is never among the recipients.                        *)
C16_EditOfDeletedTaskResets ==
    [][\A u \in Users :
          (AwaitingEditField(u) /\ ~Exists(user_data[u]["editing_task"])
           /\ reply = "task_deleted" /\ u \in sent.attempted) =>
              /\ \A data \in CallbackData :
                     (data[1] = "edit" /\ data[2] = user_data[u]["editing_task"]
                      /\ button_callback(u, data, TRUE, TRUE, {})) =>
                         /\ reply' = "task_not_found"
                         /\ Idle(u)'
              /\ \A T \in Texts :
                     text_message(u, T) =>
                         /\ reply' = "task_not_found"
                         /\ Idle(u)']_vars

(* C17: when the insert fails at the priority selection the user gets the  *)
(* try-again reply and stays in AwaitingPriority with the same pending     *)
(* description; nothing is stored.                                         *)
C17_FailedCreateKeepsDialog ==
    [][\A u \in Users, P \in PrioritySet :
          (AwaitingPriority(u) /\ Has(user_data[u], "task_description")
           /\ \E down \in SUBSET Users : button_callback(u, <<"priority", P>>, FALSE, TRUE, down)) =>
              /\ reply' = "failed_to_add"
              /\ user_data'[u] = user_data[u]
              /\ tasks' = tasks]_vars

(* C18: the cancel button, pressed in any phase, leaves the user Idle with *)
(* no pending description and no pending edit target, and the store as it  *)
(* was.                                                                    *)
C18_CancelReturnsToIdle ==
    [][\A u \in Users, id \in Ids :
          (Exists(id) /\ button_callback(u, <<"edit", id, "cancel">>, TRUE, TRUE, {})) =>
              /\ Idle(u)'
              /\ ~Has(user_data'[u], "task_description")
              /\ ~Has(user_data'[u], "editing_task")
              /\ tasks' = tasks
              /\ sqlite_sequence' = sqlite_sequence]_vars

(* C19: the notification of a change (a task added, a task deleted) is    *)
(* attempted for every registered user but the acting one and never for    *)
(* the acting one; a send that fails keeps no other recipient from getting *)
(* theirs, and the change itself succeeds.  Checked under NotifySpec.      *)
C19_BroadcastBestEffort ==
    [][\A u \in Users, down \in SUBSET Chats :
          /\ Has(user_data[u], "task_description") =>
                 \A P \in PrioritySet :
                     button_callback(u, <<"priority", P>>, TRUE, TRUE, down) =>
                         /\ sent'.attempted = active_users \ {u}
                         /\ sent'.delivered = (active_users \ {u}) \ down
                         /\ reply' = "task_added"
                         /\ Cardinality(tasks') = Cardinality(tasks) + 1
          /\ \A id \in Ids :
                 (Exists(id) /\ button_callback(u, <<"delete", id>>, TRUE, TRUE, down)) =>
                     /\ sent'.attempted = active_users \ {u}
                     /\ sent'.delivered = (active_users \ {u}) \ down
                     /\ reply' = "task_deleted"
                     /\ ~Exists(id)']_vars

(* A task was added while all three chats were registered: the send to one *)
(* of the two recipients failed and the other got the notification.        *)
C19_Witness ==
    /\ reply = "task_added"
    /\ tasks # {}
    /\ Cardinality(active_users) = 3
    /\ Cardinality(sent.attempted) = 2
    /\ Cardinality(sent.delivered) = 1

(* C20: in every reachable state the add dialog (awaiting description or   *)
(* awaiting priority) and the edit dialog (awaiting an edit field) are not *)
(* pending for the same user at once.                                      *)
C20_AddAndEditDialogsExclusive ==
    \A u \in Users :
        ~((AwaitingDescription(u) \/ AwaitingPriority(u)) /\ AwaitingEditField(u))

----------------------------------------------------------------------------
(* Properties of the store, checked under StoreSpec. *)

(* High is tier 1, Medium tier 2, Low tier 3. *)
Tier(p) == CHOOSE i \in 1..Len(PRIORITIES) : PRIORITIES[i] = p

CreatedAt(task_id) == (RowOf(tasks, task_id)).created_at

(* C3: the listing is ordered by tier, High first, then Medium, then Low,  *)
(* and within a tier by creation time ascending.                           *)
C3_ListingByTier ==
    result.op = "get_tasks" =>
        \A i, j \in 1..Len(result.ret) :
            (i < j /\ result.ret[i].priority \in PrioritySet
                   /\ result.ret[j].priority \in PrioritySet) =>
                \/ Tier(result.ret[i].priority) < Tier(result.ret[j].priority)
                \/ /\ result.ret[i].priority = result.ret[j].priority
                   /\ CreatedAt(result.ret[i].id) <= CreatedAt(result.ret[j].id)

(* C9: delete of an id that has no record reports failure and leaves the   *)
(* store unchanged.                                                        *)
C9_DeleteMissingFails ==
    [][\A id \in RowIds, ok \in BOOLEAN :
          (~Exists(id) /\ Call_delete_task(id, ok)) =>
              /\ result'.ret = FALSE
              /\ tasks' = tasks]_vars

(* C10: update-priority with a value outside High, Medium, Low reports     *)
(* failure and leaves every record unchanged.                              *)
C10_UpdatePriorityRejectsUnknown ==
    [][\A id \in RowIds, p \in StorePriorities \ PrioritySet, ok \in BOOLEAN :
          (Exists(id) /\ Call_update_task_priority(id, p, ok)) =>
              /\ result'.ret = FALSE
              /\ tasks' = tasks]_vars

(* C11: a successful create of (owner, description, priority) followed by  *)
(* get of the new record returns exactly that owner, description and       *)
(* priority, and the new id differs from every id handed out before, the   *)
(* ids of deleted records included.  The ids handed out before are         *)
(* 1..sqlite_sequence: the counter never decreases.                        *)
C11_CreateThenGet ==
    [][/\ sqlite_sequence' >= sqlite_sequence
       /\ \A r \in tasks : r.id <= sqlite_sequence
       /\ \A u \in Owners, d \in Descriptions, p \in PrioritySet :
              Call_add_task(u, d, p, TRUE) =>
                  /\ result'.ret = TRUE
                  /\ Cardinality(tasks' \ tasks) = 1
                  /\ \A r \in tasks' \ tasks :
                         /\ r.id \notin 1..sqlite_sequence
                         /\ TaskDB_get_task(r.id, TRUE)' =
                                [id |-> r.id, user_id |-> u,
                                 description |-> d, priority |-> p]]_vars

(* Record 1 is deleted and the record created second has been read back    *)
(* under its own id 2.                                                     *)
C11_Witness ==
    /\ result.op = "get_task"
    /\ result.task_id = 2
    /\ result.ret # None
    /\ ~Exists(1)

(* C12: once delete(id) has succeeded on an existing record, get(id)       *)
(* yields not-found at once and in every later state.  An id that was      *)
(* handed out and has no row is the id of a deleted record, rows leaving   *)
(* the table by delete only.                                               *)
C12_DeletionIsPermanent ==
    [][\A id \in RowIds :
          /\ (Exists(id) /\ Call_delete_task(id, TRUE)) =>
                 /\ result'.ret = TRUE
                 /\ TaskDB_get_task(id, TRUE)' = None
          /\ (id <= sqlite_sequence /\ ~Exists(id)) =>
                 TaskDB_get_task(id, TRUE)' = None]_vars

(* Record 1 was deleted, record 2 exists, and get(1) has answered          *)
(* not-found.                                                              *)
C12_Witness ==
    /\ result.op = "get_task"
    /\ result.task_id = 1
    /\ result.ret = None
    /\ sqlite_sequence = 2
    /\ Exists(2)
    /\ ~Exists(1)

(* C13: for distinct users A and B, no operation performed by A returns,   *)
(* changes or removes a record whose owner is B.  The methods of TaskDB    *)
(* take no acting user, so a call is a call by any user A.                 *)
C13_OwnershipEnforced ==
    [][\A A \in Users, id \in RowIds :
          (Exists(id) /\ (RowOf(tasks, id)).user_id # A) =>
              /\ Call_get_task(id, TRUE) => result'.ret = None
              /\ \A d \in Descriptions :
                     Call_update_task_description(id, d, TRUE) => tasks' = tasks
              /\ \A p \in PrioritySet :
                     Call_update_task_priority(id, p, TRUE) => tasks' = tasks
              /\ Call_delete_task(id, TRUE) => tasks' = tasks]_vars

=============================================================================
